---- MODULE Spec2Model ----
(***************************************************************************)
(* A model of create_issue.py and jira_utils.py: the command-line tool     *)
(* that creates one tracker issue from --set FIELD=VALUE arguments and     *)
(* links it to the issues named by --link ISSUE:LINK arguments.            *)
(*                                                                         *)
(* Strings that the script parses or compares (argument tokens, field      *)
(* ids, keys and names, allowed values) are sequences of atoms.  An atom   *)
(* is one delimiter ("=" or ":"), one whitespace character (Blank), one     *)
(* sign ("+" or "-"), one underscore, one decimal digit, or a word: a run   *)
(* of characters holding none of these.  The empty string                  *)
(* is << >>.  Python's None is the record None below, an exception is a    *)
(* record naming its class, and exit() is the outcome "exit".              *)
(***************************************************************************)
EXTENDS Integers, Sequences, FiniteSets, TLC

VARIABLES
    pc,                 \* position of the script (or of the function applied)
    in_server,          \* args.jira_server
    in_user,            \* args.jira_user
    in_token,           \* args.jira_token
    environ,            \* os.environ restricted to the three JIRA_API_* variables
    jira_login_info,    \* outcome of make_jira_login_info
    cur_information,    \* the raw description of the field under conversion
    cur_values,         \* the raw values of the field under conversion
    field_type,         \* <<get_type, get_items_type>> of cur_information
    converted,          \* outcome of the dispatch for cur_values and cur_information
    args_show,          \* args.show_fields, args.issue_type, args.issue_project once read
    args_set,           \* args.set once read
    args_link,          \* args.link once read
    tracker_fields,     \* what the tracker answers to fields() and editmeta()
    fields_information_dict,    \* field id or key -> raw description
    all_ids,            \* the keys given to --set, in order
    fields_and_values,  \* field -> raw values
    field_index,        \* position of the conversion loop in fields_and_values
    final_fields,       \* field -> converted value
    links,              \* target issue -> link type
    link_index,         \* position of link_issues in links
    issue,              \* the key of the created issue
    calls,              \* the create_issue and create_issue_link calls made, in order
    link_attempts,      \* the iterations of link_issues made, in order
    error               \* why the process exited or crashed

login_vars == <<in_server, in_user, in_token, environ, jira_login_info>>

conv_vars == <<cur_information, cur_values, field_type, converted>>

args_vars == <<args_show, args_set, args_link>>

fields_vars == <<tracker_fields, fields_information_dict, all_ids, fields_and_values,
                 field_index, final_fields>>

issue_vars == <<links, link_index, issue, calls, link_attempts>>

main_vars == <<args_vars, fields_vars, issue_vars, error>>

vars == <<pc, login_vars, conv_vars, main_vars>>

-----------------------------------------------------------------------------
(* Values *)

None == [given |-> FALSE]
Some(v) == [given |-> TRUE, val |-> v]

\* a one-word string
S(w) == <<w>>

\* a normal return and a raised exception (or exit()) of a function
Return(v) == [raised |-> "no", value |-> v]
Raise(cls) == [raised |-> cls]

-----------------------------------------------------------------------------
(* jira_utils.py: make_jira_login_info *)

EnvNames == {"JIRA_API_SERVER", "JIRA_API_USERNAME", "JIRA_API_TOKEN"}

UndefinedVariable(var_name) ==
    [raised |-> "UndefinedVariable", message |-> <<var_name, " variable is not specified">>]

ValueError(text) == [raised |-> "ValueError", message |-> <<text>>]

JiraLoginInfo(server, user, token) == [server |-> server, user |-> user, token |-> token]

\* resolve_credential reading the environment before the argument
resolve_credential_env_first(arg, env, var_name, empty_text) ==
    IF env[var_name].given
    THEN IF Len(env[var_name].val) = 0 THEN ValueError(empty_text)
         ELSE Return(env[var_name].val)
    ELSE IF ~arg.given THEN UndefinedVariable(var_name)
         ELSE IF Len(arg.val) = 0 THEN ValueError(empty_text) ELSE Return(arg.val)

\* the resolution of one credential: the argument, else the environment variable
resolve_credential(arg, env, var_name, empty_text) ==
    IF arg.given
    THEN IF Len(arg.val) = 0 THEN ValueError(empty_text) ELSE Return(arg.val)
    ELSE IF ~env[var_name].given THEN UndefinedVariable(var_name)
         ELSE IF Len(env[var_name].val) = 0 THEN ValueError(empty_text)
              ELSE Return(env[var_name].val)

make_jira_login_info(arg_server, arg_user, arg_token, env) ==
    LET server == resolve_credential(arg_server, env, "JIRA_API_SERVER", "Jira API server name is empty")
        user == resolve_credential(arg_user, env, "JIRA_API_USERNAME", "Jira API user name is empty")
        token == resolve_credential(arg_token, env, "JIRA_API_TOKEN", "Jira API secure token string is empty")
    IN  IF server.raised # "no" THEN server
        ELSE IF user.raised # "no" THEN user
        ELSE IF token.raised # "no" THEN token
        ELSE Return(JiraLoginInfo(server.value, user.value, token.value))

-----------------------------------------------------------------------------
(* Strings and insertion-ordered dictionaries *)

\* the whitespace int() skips around a number: space, tab, newline, carriage
\* return, form feed, U+000B, U+0085, U+00A0 and U+1680.  (U+2000..U+200A,
\* U+2028, U+2029, U+202F, U+205F and U+3000 are whitespace too and cannot be
\* written in a string literal.)
IntBlank == {" ", "\t", "\n", "\r", "\f", "", "", " ", " "}

\* the characters str.strip() removes: those of IntBlank and U+001C..U+001F
Blank == IntBlank \cup {"", "", "", ""}

\* the decimal digits int() accepts, by value: DigitValues[n + 1] holds the
\* digits of value n, the ASCII one and those of the other scripts that can be
\* written in a string literal
DigitValues == <<
    {"0", "۰", "߀", "০", "૦", "௦", "೦", "෦", "໐", "႐", "០", "᧐", "᪀", "᪐", "᮰", "꣐", "꧐", "꧰", "꯰"},
    {"1", "۱", "߁", "১", "૧", "௧", "೧", "෧", "໑", "႑", "១", "᧑", "᪁", "᪑", "᮱", "꣑", "꧑", "꧱", "꯱"},
    {"2", "۲", "߂", "২", "૨", "௨", "೨", "෨", "໒", "႒", "២", "᧒", "᪂", "᪒", "᮲", "꣒", "꧒", "꧲", "꯲"},
    {"3", "۳", "߃", "৩", "૩", "௩", "೩", "෩", "໓", "႓", "៣", "᧓", "᪃", "᪓", "᮳", "꣓", "꧓", "꧳", "꯳"},
    {"4", "۴", "߄", "৪", "૪", "௪", "೪", "෪", "໔", "႔", "៤", "᧔", "᪄", "᪔", "᮴", "꣔", "꧔", "꧴", "꯴"},
    {"5", "۵", "߅", "৫", "૫", "௫", "೫", "෫", "໕", "႕", "៥", "᧕", "᪅", "᪕", "᮵", "꣕", "꧕", "꧵", "꯵"},
    {"6", "۶", "߆", "৬", "૬", "௬", "೬", "෬", "໖", "႖", "៦", "᧖", "᪆", "᪖", "᮶", "꣖", "꧖", "꧶", "꯶"},
    {"7", "۷", "߇", "৭", "૭", "௭", "೭", "෭", "໗", "႗", "៧", "᧗", "᪇", "᪗", "᮷", "꣗", "꧗", "꧷", "꯷"},
    {"8", "۸", "߈", "৮", "૮", "௮", "೮", "෮", "໘", "႘", "៨", "᧘", "᪈", "᪘", "᮸", "꣘", "꧘", "꧸", "꯸"},
    {"9", "۹", "߉", "৯", "૯", "௯", "೯", "෯", "໙", "႙", "៩", "᧙", "᪉", "᪙", "᮹", "꣙", "꧙", "꧹", "꯹"} >>

Digits == UNION {DigitValues[n] : n \in 1..10}

\* str.split(delimiter) for a one-character delimiter: the parts between the
\* occurrences of the delimiter, empty parts included
RECURSIVE split(_, _)
split(s, delimiter) ==
    IF \A i \in 1..Len(s) : s[i] # delimiter
    THEN <<s>>
    ELSE LET i == CHOOSE n \in 1..Len(s) :
                      s[n] = delimiter /\ \A m \in 1..(n - 1) : s[m] # delimiter
         IN  <<SubSeq(s, 1, i - 1)>> \o split(SubSeq(s, i + 1, Len(s)), delimiter)

\* delimiter.join(parts)
RECURSIVE join(_, _)
join(parts, delimiter) ==
    IF Len(parts) = 0 THEN <<>>
    ELSE IF Len(parts) = 1 THEN parts[1]
    ELSE parts[1] \o <<delimiter>> \o join(Tail(parts), delimiter)

\* str.strip(): leading and trailing whitespace removed
RECURSIVE lstrip(_)
lstrip(s) == IF Len(s) > 0 /\ s[1] \in Blank THEN lstrip(Tail(s)) ELSE s

RECURSIVE rstrip(_)
rstrip(s) ==
    IF Len(s) > 0 /\ s[Len(s)] \in Blank THEN rstrip(SubSeq(s, 1, Len(s) - 1)) ELSE s

strip(s) == rstrip(lstrip(s))

\* the whitespace int() skips before and after the number
RECURSIVE int_lstrip(_)
int_lstrip(s) == IF Len(s) > 0 /\ s[1] \in IntBlank THEN int_lstrip(Tail(s)) ELSE s

RECURSIVE int_rstrip(_)
int_rstrip(s) ==
    IF Len(s) > 0 /\ s[Len(s)] \in IntBlank THEN int_rstrip(SubSeq(s, 1, Len(s) - 1)) ELSE s

\* a dict is the sequence of its items [k, v] in insertion order, keys unique
dict_has(d, k) == \E i \in 1..Len(d) : d[i].k = k

dict_get(d, k) == d[CHOOSE i \in 1..Len(d) : d[i].k = k].v

\* d[k] = v: an existing key keeps its position
dict_set(d, k, v) ==
    IF dict_has(d, k)
    THEN [i \in 1..Len(d) |-> IF d[i].k = k THEN [k |-> k, v |-> v] ELSE d[i]]
    ELSE Append(d, [k |-> k, v |-> v])

\* d after d.pop(k)
dict_without(d, k) == SelectSeq(d, LAMBDA item : item.k # k)

dict_keys(d) == [i \in 1..Len(d) |-> d[i].k]

-----------------------------------------------------------------------------
(* create_issue.py: parsing of --set and --link *)

\* value is bound only when the delimiter occurs in s
parse_item(s, delimiter) ==
    LET items == split(s, delimiter)
        key == strip(items[1])
    IN  IF Len(items) > 1
        THEN Return([key |-> key, value |-> join(Tail(items), delimiter)])
        ELSE Raise("UnboundLocalError")

\* items is None or the list of the --set occurrences, each a non-empty list
\* of tokens of which only the first is read
RECURSIVE parse_items_for_set_from(_, _)
parse_items_for_set_from(items, d) ==
    IF Len(items) = 0 THEN Return(d)
    ELSE LET parsed == parse_item(items[1][1], "=")
         IN  IF parsed.raised # "no" THEN parsed
             ELSE LET key == parsed.value.key
                      old == IF dict_has(d, key) THEN dict_get(d, key) ELSE <<>>
                  IN  parse_items_for_set_from(Tail(items),
                          dict_set(d, key, Append(old, parsed.value.value)))

parse_items_for_set(items) ==
    IF items.given THEN parse_items_for_set_from(items.val, <<>>) ELSE Return(<<>>)

RECURSIVE parse_items_for_link_from(_, _)
parse_items_for_link_from(items, d) ==
    IF Len(items) = 0 THEN Return(d)
    ELSE LET parsed == parse_item(items[1][1], ":")
         IN  IF parsed.raised # "no" THEN parsed
             ELSE parse_items_for_link_from(Tail(items),
                      dict_set(d, parsed.value.key, parsed.value.value))

parse_items_for_link(items) ==
    IF items.given THEN parse_items_for_link_from(items.val, <<>>) ELSE Return(<<>>)

-----------------------------------------------------------------------------
(* create_issue.py: field metadata *)

\* A field's raw description is a record with a key and a name, with or
\* without "id", "schema" (a record with "type", with or without "items")
\* and "allowedValues" (a sequence of records with or without "value",
\* "name" and "id").  `x in information` is "x" \in DOMAIN information.

JiraFieldType == {"NONE", "ARRAY", "STRING", "ENUM", "TIME_TRACKING"}

\* JiraAllowedValueInformation.get_value
allowed_value_get_value(information) ==
    IF "value" \in DOMAIN information THEN Return(information.value)
    ELSE IF "name" \in DOMAIN information THEN Return(information.name)
    ELSE Raise("exit")

\* JiraAllowedValueInformation.get_id
allowed_value_get_id(information) ==
    IF "id" \in DOMAIN information THEN Return(information.id) ELSE Raise("KeyError")

get_key(information) == information.key

get_name(information) == information.name

\* get_type testing allowedValues before the type marker
get_type_allowed_first(information) ==
    IF "schema" \notin DOMAIN information THEN "KeyError"
    ELSE IF "allowedValues" \in DOMAIN information THEN "ENUM"
    ELSE IF information.schema.type = "array" THEN "ARRAY"
    ELSE IF information.schema.type = "string" THEN "STRING"
    ELSE "NONE"

\* the JiraFieldType of the field, "KeyError" when there is no schema
get_type(information) ==
    IF "schema" \notin DOMAIN information THEN "KeyError"
    ELSE IF information.schema.type = "array" THEN "ARRAY"
    ELSE IF information.schema.type = "string" THEN "STRING"
    ELSE IF "allowedValues" \in DOMAIN information THEN "ENUM"
    ELSE "NONE"

get_items_type(information) ==
    IF "schema" \notin DOMAIN information THEN "KeyError"
    ELSE IF "items" \notin DOMAIN information.schema THEN "NONE"
    ELSE IF information.schema.items = "array" THEN "ARRAY"
    ELSE IF information.schema.items = "string" THEN "STRING"
    ELSE IF "allowedValues" \in DOMAIN information THEN "ENUM"
    ELSE "NONE"

\* the dict from display value to allowed-value description, built in the
\* order of the list; a later entry replaces an earlier one of the same value
RECURSIVE allowed_values_from(_, _)
allowed_values_from(entries, d) ==
    IF Len(entries) = 0 THEN Return(d)
    ELSE LET value == allowed_value_get_value(entries[1])
         IN  IF value.raised # "no" THEN value
             ELSE allowed_values_from(Tail(entries), dict_set(d, value.value, entries[1]))

get_allowed_values(information) ==
    IF "schema" \notin DOMAIN information THEN Raise("KeyError")
    ELSE IF get_type(information) # "ENUM" /\ get_items_type(information) # "ENUM"
    THEN Return(None)
    ELSE LET d == allowed_values_from(information.allowedValues, <<>>)
         IN  IF d.raised # "no" THEN d ELSE Return(Some(d.value))

-----------------------------------------------------------------------------
(* create_issue.py: the converters.  A converted value is a JSON value. *)

JStr(s) == [t |-> "str", v |-> s]
JInt(n) == [t |-> "int", v |-> n]
JObj(k, v) == [t |-> "obj", k |-> k, v |-> v]
JList(xs) == [t |-> "list", v |-> xs]

\* jira_utils.get_jira_project: the project, or None when jira.project raises
get_jira_project(response) ==
    IF response.raised # "no" THEN None ELSE Some(response.value)

\* jira_utils.get_jira_user: the first user found when its e-mail address or
\* display name is user_name, else None
get_jira_user(response, user_name) ==
    IF response.raised # "no" THEN None
    ELSE IF Len(response.value) # 0
            /\ (response.value[1].emailAddress = user_name
                \/ response.value[1].displayName = user_name)
    THEN Some(response.value[1])
    ELSE None

values_to_project(values, field_information, tracker) ==
    LET project == get_jira_project(tracker.project)
    IN  IF project.given THEN Return(JObj("key", JStr(project.val.key)))
        ELSE Raise("AttributeError")

values_to_issuetype(values, field_information) == Return(JObj("name", JStr(values[1])))

values_to_components(values, field_information) ==
    Return(JList(<<JObj("name", JStr(values[1]))>>))

values_to_assignee(values, field_information, tracker) ==
    LET user == get_jira_user(tracker.users, values[1])
    IN  IF user.given THEN Return(JObj("accountId", JStr(user.val.accountId)))
        ELSE Raise("AttributeError")

\* the value of a string of decimal digits
RECURSIVE decimal(_)
decimal(s) ==
    IF Len(s) = 0 THEN 0
    ELSE 10 * decimal(SubSeq(s, 1, Len(s) - 1))
         + (CHOOSE n \in 0..9 : s[Len(s)] \in DigitValues[n + 1])

\* the number of digits above which int() refuses a string
default_max_str_digits == 4300

\* int(values[0]): whitespace around the number, one sign before it and single
\* underscores between its digits are allowed; the digits may be of any script
\* and at most default_max_str_digits in number
strs_to_int(values, field_information) ==
    LET s == int_rstrip(int_lstrip(values[1]))
        signed == Len(s) > 0 /\ s[1] \in {"+", "-"}
        body == IF signed THEN Tail(s) ELSE s
        digits == SelectSeq(body, LAMBDA c : c \in Digits)
        magnitude == decimal(digits)
    IN  IF /\ Len(body) > 0
           /\ \A i \in 1..Len(body) : body[i] \in Digits \cup {"_"}
           /\ body[1] \in Digits
           /\ body[Len(body)] \in Digits
           /\ \A i \in 1..(Len(body) - 1) : ~(body[i] = "_" /\ body[i + 1] = "_")
           /\ Len(digits) <= default_max_str_digits
        THEN Return(JInt(IF signed /\ s[1] = "-" THEN 0 - magnitude ELSE magnitude))
        ELSE Raise("ValueError")

values_to_timetracking(values, field_information) ==
    Return(JObj("originalEstimate", JStr(values[1])))

values_to_labels(values, field_information) == Return(JList(<<JStr(values[1])>>))

\* values_to_enum falling back to the first allowed value
values_to_enum_default(values, field_information) ==
    LET allowed_values == get_allowed_values(field_information)
    IN  IF allowed_values.raised # "no" THEN allowed_values
        ELSE IF ~allowed_values.value.given THEN Raise("TypeError")
        ELSE IF Len(allowed_values.value.val) = 0 THEN Raise("AttributeError")
        ELSE LET entry == IF dict_has(allowed_values.value.val, values[1])
                          THEN dict_get(allowed_values.value.val, values[1])
                          ELSE allowed_values.value.val[1].v
                 id == allowed_value_get_id(entry)
             IN  IF id.raised # "no" THEN id ELSE Return(JObj("id", JStr(id.value)))

\* the error branch formats its message with field_information.get_value(),
\* which JiraFieldInformation does not have
values_to_enum(values, field_information) ==
    LET allowed_values == get_allowed_values(field_information)
    IN  IF allowed_values.raised # "no" THEN allowed_values
        ELSE IF ~allowed_values.value.given THEN Raise("TypeError")
        ELSE IF ~dict_has(allowed_values.value.val, values[1]) THEN Raise("AttributeError")
        ELSE LET id == allowed_value_get_id(dict_get(allowed_values.value.val, values[1]))
             IN  IF id.raised # "no" THEN id ELSE Return(JObj("id", JStr(id.value)))

RECURSIVE values_to_enum_each(_, _, _)
values_to_enum_each(values, field_information, array) ==
    IF Len(values) = 0 THEN Return(JList(array))
    ELSE LET one == values_to_enum(<<values[1]>>, field_information)
         IN  IF one.raised # "no" THEN one
             ELSE values_to_enum_each(Tail(values), field_information,
                                      Append(array, one.value))

\* values_to_array converting values[0] only
values_to_array_first_only(values, field_information) ==
    IF get_items_type(field_information) = "KeyError" THEN Raise("KeyError")
    ELSE IF get_items_type(field_information) = "ENUM"
    THEN values_to_enum_each(<<values[1]>>, field_information, <<>>)
    ELSE Return(JList(<<JStr(values[1])>>))

\* get_items_type() raises KeyError on a field without schema
values_to_array(values, field_information) ==
    IF get_items_type(field_information) = "KeyError" THEN Raise("KeyError")
    ELSE IF get_items_type(field_information) = "ENUM"
    THEN values_to_enum_each(values, field_information, <<>>)
    ELSE Return(JList([i \in 1..Len(values) |-> JStr(values[i])]))

-----------------------------------------------------------------------------
(* create_issue.py: the dispatch *)

make_name_predicate(name) == [by |-> "key", arg |-> name]
make_enum_predicate == [by |-> "type", arg |-> "ENUM"]
make_array_predicate == [by |-> "type", arg |-> "ARRAY"]

\* the list with the type rules ahead of the key rules
predicates_and_convertors_list_types_first == <<
    [predicate |-> make_enum_predicate,                         converter |-> "values_to_enum"],
    [predicate |-> make_array_predicate,                        converter |-> "values_to_array"],
    [predicate |-> make_name_predicate(S("project")),           converter |-> "values_to_project"],
    [predicate |-> make_name_predicate(S("issuetype")),         converter |-> "values_to_issuetype"],
    [predicate |-> make_name_predicate(S("assignee")),          converter |-> "values_to_assignee"],
    [predicate |-> make_name_predicate(S("customfield_10113")), converter |-> "strs_to_int"],
    [predicate |-> make_name_predicate(S("timetracking")),      converter |-> "values_to_timetracking"] >>

\* the list with rules for components and labels
predicates_and_convertors_list_with_labels == <<
    [predicate |-> make_name_predicate(S("project")),           converter |-> "values_to_project"],
    [predicate |-> make_name_predicate(S("issuetype")),         converter |-> "values_to_issuetype"],
    [predicate |-> make_name_predicate(S("assignee")),          converter |-> "values_to_assignee"],
    [predicate |-> make_name_predicate(S("customfield_10113")), converter |-> "strs_to_int"],
    [predicate |-> make_name_predicate(S("timetracking")),      converter |-> "values_to_timetracking"],
    [predicate |-> make_name_predicate(S("components")),        converter |-> "values_to_components"],
    [predicate |-> make_name_predicate(S("labels")),            converter |-> "values_to_labels"],
    [predicate |-> make_enum_predicate,                         converter |-> "values_to_enum"],
    [predicate |-> make_array_predicate,                        converter |-> "values_to_array"] >>

predicates_and_convertors_list == <<
    [predicate |-> make_name_predicate(S("project")),           converter |-> "values_to_project"],
    [predicate |-> make_name_predicate(S("issuetype")),         converter |-> "values_to_issuetype"],
    [predicate |-> make_name_predicate(S("assignee")),          converter |-> "values_to_assignee"],
    [predicate |-> make_name_predicate(S("customfield_10113")), converter |-> "strs_to_int"],
    [predicate |-> make_name_predicate(S("timetracking")),      converter |-> "values_to_timetracking"],
    [predicate |-> make_enum_predicate,                         converter |-> "values_to_enum"],
    [predicate |-> make_array_predicate,                        converter |-> "values_to_array"] >>

\* predicate(field_information)
call_predicate(predicate, field_information) ==
    IF predicate.by = "key" THEN Return(get_key(field_information) = predicate.arg)
    ELSE IF get_type(field_information) = "KeyError" THEN Raise("KeyError")
    ELSE Return(get_type(field_information) = predicate.arg)

call_converter(converter, values, field_information, tracker) ==
    CASE converter = "values_to_project" -> values_to_project(values, field_information, tracker)
      [] converter = "values_to_issuetype" -> values_to_issuetype(values, field_information)
      [] converter = "values_to_components" -> values_to_components(values, field_information)
      [] converter = "values_to_assignee" -> values_to_assignee(values, field_information, tracker)
      [] converter = "strs_to_int" -> strs_to_int(values, field_information)
      [] converter = "values_to_timetracking" -> values_to_timetracking(values, field_information)
      [] converter = "values_to_labels" -> values_to_labels(values, field_information)
      [] converter = "values_to_enum" -> values_to_enum(values, field_information)
      [] converter = "values_to_array" -> values_to_array(values, field_information)

\* the body of the conversion loop for one field whose metadata is known:
\* the converter of the first rule whose predicate holds, values[0] when
\* none holds; converters holds the converters called, in order
RECURSIVE convert_from(_, _, _, _)
convert_from(rules, values, field_information, tracker) ==
    IF Len(rules) = 0
    THEN [raised |-> "no", value |-> JStr(values[1]), converters |-> <<>>]
    ELSE LET holds == call_predicate(rules[1].predicate, field_information)
         IN  IF holds.raised # "no" THEN [raised |-> holds.raised, converters |-> <<>>]
             ELSE IF holds.value
             THEN LET result == call_converter(rules[1].converter, values,
                                               field_information, tracker)
                  IN  IF result.raised # "no"
                      THEN [raised |-> result.raised, converters |-> <<rules[1].converter>>]
                      ELSE [raised |-> "no", value |-> result.value,
                            converters |-> <<rules[1].converter>>]
             ELSE convert_from(Tail(rules), values, field_information, tracker)

convert(values, field_information, tracker) ==
    convert_from(predicates_and_convertors_list, values, field_information, tracker)

-----------------------------------------------------------------------------
(* create_issue.py: the script's own steps *)

\* the first issue found, None when the search finds none
get_issue_by_issuetype_and_project(response) ==
    IF response.raised # "no" THEN response
    ELSE IF Len(response.value) = 0 THEN Return(None)
    ELSE Return(Some(response.value[1]))

\* the dict from get_key() to the description, over the list jira.fields() gave
RECURSIVE generate_from(_, _)
generate_from(information, fields_dict) ==
    IF Len(information) = 0 THEN fields_dict
    ELSE generate_from(Tail(information),
                       dict_set(fields_dict, get_key(information[1]), information[1]))

generate_jira_fields_information_from_general_source(information) ==
    generate_from(information, <<>>)

\* {field['id']: field['name'] for field in allfields}
RECURSIVE ids_map_from(_, _)
ids_map_from(allfields, d) ==
    IF Len(allfields) = 0 THEN d
    ELSE ids_map_from(Tail(allfields), dict_set(d, allfields[1].id, allfields[1].name))

fields_ids_map(allfields) == ids_map_from(allfields, <<>>)

\* {field['name']: field['id'] for field in allfields}
RECURSIVE names_map_from(_, _)
names_map_from(allfields, d) ==
    IF Len(allfields) = 0 THEN d
    ELSE names_map_from(Tail(allfields), dict_set(d, allfields[1].name, allfields[1].id))

fields_names_map(allfields) == names_map_from(allfields, <<>>)

\* {**a, **b}
RECURSIVE dict_merge(_, _)
dict_merge(a, b) ==
    IF Len(b) = 0 THEN a ELSE dict_merge(dict_set(a, b[1].k, b[1].v), Tail(b))

\* the loop over all_ids that moves the values given under a field's name to
\* the field's id and exits on a key that is neither a name nor an id; the
\* dict is renamed in place, so a run that ends here leaves it as renamed so far
RECURSIVE resolve_names(_, _, _, _)
resolve_names(ids, fields, names_map, ids_map) ==
    IF Len(ids) = 0 THEN Return(fields)
    ELSE IF dict_has(names_map, ids[1])
    THEN IF ~dict_has(fields, ids[1]) THEN [raised |-> "KeyError", value |-> fields]
         ELSE resolve_names(Tail(ids),
                            dict_set(dict_without(fields, ids[1]),
                                     dict_get(names_map, ids[1]),
                                     dict_get(fields, ids[1])),
                            names_map, ids_map)
    ELSE IF ~dict_has(ids_map, ids[1]) THEN [raised |-> "exit", value |-> fields]
    ELSE resolve_names(Tail(ids), fields, names_map, ids_map)

-----------------------------------------------------------------------------
(* Bounds and input sets *)

MaxValues == 2      \* raw values given for one field

NotYet == [raised |-> "not called"]

\* what a credential argument and an environment variable can hold
ArgStrings == {None, Some(<<>>), Some(S("arg"))}
EnvStrings == {None, Some(<<>>), Some(S("env"))}

\* allowed-value lists: with "value", with "name", with both, with neither,
\* without "id", two entries of one display value
AllowedValueLists == {
    <<>>,
    <<[id |-> S("1"), value |-> S("High")], [id |-> S("2"), name |-> S("Low")]>>,
    <<[id |-> S("1"), value |-> S("High"), name |-> S("Low")]>>,
    <<[id |-> S("1"), name |-> S("High")], [id |-> S("3"), value |-> S("High")]>>,
    <<[id |-> S("1"), value |-> S("High")], [id |-> S("2")]>>,
    <<[value |-> S("High")], [id |-> S("2"), value |-> S("Low")]>> }

TypeMarkers == {"array", "string", "option", "number"}
ItemMarkers == {"array", "string", "option"}

SchemaParts ==
    {<<>>} \cup {[schema |-> [type |-> t]] : t \in TypeMarkers}
           \cup {[schema |-> [type |-> t, items |-> i]] : t \in TypeMarkers, i \in ItemMarkers}

AllowedParts == {<<>>} \cup {[allowedValues |-> l] : l \in AllowedValueLists}

FieldKeys == {S("project"), S("issuetype"), S("assignee"), S("customfield_10113"),
              S("timetracking"), S("components"), S("labels"), S("priority"),
              S("summary")}

FieldInformations ==
    {[key |-> k, name |-> k, id |-> k] @@ s @@ a :
        k \in FieldKeys, s \in SchemaParts, a \in AllowedParts}

RawStrings == {S("High"), S("Low"), S("Bob"), <<"4", "2">>, <<"\t", "-", "1", "_", "۰", " ">>}

RawValues == UNION {[1..n -> RawStrings] : n \in 1..MaxValues}

\* what jira.project and the user search can answer
ProjectResponses == {Raise("JIRAError"), Return([key |-> S("PRJ"), name |-> S("Project")])}

UserResponses == {
    Raise("JIRAError"),
    Return(<<>>),
    Return(<<[emailAddress |-> S("bob@x"), displayName |-> S("Bob"), accountId |-> S("acc1")]>>),
    Return(<<[emailAddress |-> S("Low"), displayName |-> S("L"), accountId |-> S("acc2")]>>) }

Trackers == [project : ProjectResponses, users : UserResponses]

-----------------------------------------------------------------------------
(* Credential resolution on its own *)

LoginIdle ==
    /\ in_server = None /\ in_user = None /\ in_token = None
    /\ environ = [n \in EnvNames |-> None]
    /\ jira_login_info = NotYet

ConvIdle ==
    /\ cur_information = <<>> /\ cur_values = <<>>
    /\ field_type = <<>> /\ converted = NotYet

NotRead == [read |-> FALSE]
Read(v) == [read |-> TRUE, arg |-> v]

NoError == [how |-> "none"]

MainIdle ==
    /\ args_show = NotRead /\ args_set = NotRead /\ args_link = NotRead
    /\ tracker_fields = None
    /\ fields_information_dict = <<>>
    /\ all_ids = <<>>
    /\ fields_and_values = <<>>
    /\ field_index = 1
    /\ final_fields = <<>>
    /\ links = <<>>
    /\ link_index = 1
    /\ issue = None
    /\ calls = <<>>
    /\ link_attempts = <<>>
    /\ error = NoError

InitLogin ==
    /\ pc = "login"
    /\ in_server \in ArgStrings /\ in_user \in ArgStrings /\ in_token \in ArgStrings
    /\ environ \in [EnvNames -> EnvStrings]
    /\ jira_login_info = NotYet
    /\ ConvIdle
    /\ MainIdle

Login ==
    /\ pc = "login"
    /\ jira_login_info' = make_jira_login_info(in_server, in_user, in_token, environ)
    /\ pc' = "login_done"
    /\ UNCHANGED <<in_server, in_user, in_token, environ, conv_vars, main_vars>>

NextLogin == Login

SpecLogin == InitLogin /\ [][NextLogin]_vars

-----------------------------------------------------------------------------
(* Classification and conversion of one field on their own *)

InitConv ==
    /\ pc = "classify"
    /\ cur_information \in FieldInformations
    /\ cur_values \in RawValues
    /\ field_type = <<>>
    /\ converted = NotYet
    /\ LoginIdle
    /\ MainIdle

Classify ==
    /\ pc = "classify"
    /\ field_type' = <<get_type(cur_information), get_items_type(cur_information)>>
    /\ pc' = "convert"
    /\ UNCHANGED <<cur_information, cur_values, converted, login_vars, main_vars>>

Convert ==
    /\ pc = "convert"
    /\ \E tracker \in Trackers :
           converted' = convert(cur_values, cur_information, tracker)
    /\ pc' = "converted"
    /\ UNCHANGED <<cur_information, cur_values, field_type, login_vars, main_vars>>

NextConv == Classify \/ Convert

SpecConv == InitConv /\ [][NextConv]_vars

-----------------------------------------------------------------------------
(* Properties of classification and conversion (SpecConv) *)

KeyRuleNames == {S("project"), S("issuetype"), S("assignee"), S("customfield_10113"),
                 S("timetracking")}

HasSchema == "schema" \in DOMAIN cur_information
HasAllowedValues == "allowedValues" \in DOMAIN cur_information

\* the display value of an allowed-value entry: its "value", else its "name"
HasDisplay(entry) == "value" \in DOMAIN entry \/ "name" \in DOMAIN entry
Display(entry) == IF "value" \in DOMAIN entry THEN entry.value ELSE entry.name

\* the entries of the field's list that a display value selects: the mapping
\* keeps the last entry of each display value
EntryOf(v) ==
    LET l == cur_information.allowedValues
    IN  {i \in 1..Len(l) : /\ HasDisplay(l[i]) /\ Display(l[i]) = v
                           /\ \A j \in (i + 1)..Len(l) : ~(HasDisplay(l[j]) /\ Display(l[j]) = v)}

InAllowedSet(v) == HasAllowedValues /\ EntryOf(v) # {}

WellFormedAllowedValues ==
    /\ HasAllowedValues
    /\ \A i \in 1..Len(cur_information.allowedValues) :
           /\ HasDisplay(cur_information.allowedValues[i])
           /\ "id" \in DOMAIN cur_information.allowedValues[i]

IdObjectOf(v) ==
    JObj("id", JStr(cur_information.allowedValues[CHOOSE i \in EntryOf(v) : TRUE].id))

\* the converter the fixed rule order selects, "none" when no rule matches
ExpectedConverter ==
    LET key == cur_information.key
    IN  IF key = S("project") THEN "values_to_project"
        ELSE IF key = S("issuetype") THEN "values_to_issuetype"
        ELSE IF key = S("assignee") THEN "values_to_assignee"
        ELSE IF key = S("customfield_10113") THEN "strs_to_int"
        ELSE IF key = S("timetracking") THEN "values_to_timetracking"
        ELSE IF field_type[1] = "ENUM" THEN "values_to_enum"
        ELSE IF field_type[1] = "ARRAY" THEN "values_to_array"
        ELSE "none"

\* the converter applied is the one of the first rule that holds, at most one
\* converter is applied, and a field no rule matches gets raw_values[0] verbatim
FirstRuleApplied ==
        /\ Len(converted.converters) <= 1
        /\ IF ExpectedConverter = "none"
           THEN converted = [raised |-> "no", value |-> JStr(cur_values[1]),
                             converters |-> <<>>]
           ELSE converted.converters = <<ExpectedConverter>>
        /\ (ExpectedConverter = "values_to_issuetype" =>
                converted.raised = "no"
                /\ converted.value = JObj("name", JStr(cur_values[1])))
        /\ (ExpectedConverter = "values_to_timetracking" =>
                converted.raised = "no"
                /\ converted.value = JObj("originalEstimate", JStr(cur_values[1])))
        /\ (ExpectedConverter = "values_to_project" /\ converted.raised = "no" =>
                converted.value.t = "obj" /\ converted.value.k = "key")
        /\ (ExpectedConverter = "strs_to_int" =>
                \/ converted.raised = "no" /\ converted.value.t = "int"
                \/ converted.raised = "ValueError")

\* the claim as stated, for every field: the converter applied is that of the
\* first rule that holds and a field no rule matches gets raw_values[0] verbatim
C5_Original == pc = "converted" => FirstRuleApplied

\* C5: for every field that has a schema or whose key is one of the key rules,
\* the converter applied is the one of the first rule that holds in the order
\* project, issuetype, assignee, customfield_10113, timetracking, ENUM, ARRAY
\* (a key rule wins over the field's type), at most one converter is applied,
\* issuetype gives {name: raw_values[0]}, timetracking gives
\* {originalEstimate: raw_values[0]}, a found project gives {key: its key},
\* and a field no rule matches gets raw_values[0] verbatim.  A field without a
\* schema that no key rule matches gets no value: the ENUM rule's predicate
\* raises KeyError and no converter is applied.
C5_FirstRuleWins ==
    pc = "converted" =>
        IF HasSchema \/ cur_information.key \in KeyRuleNames
        THEN FirstRuleApplied
        ELSE converted.raised = "KeyError" /\ converted.converters = <<>>

\* a field named project that is also classified ENUM went through the project rule
C5_Witness ==
    /\ pc = "converted"
    /\ cur_information.key = S("project")
    /\ field_type[1] = "ENUM"
    /\ converted.converters = <<"values_to_project">>
    /\ converted.raised = "no"

\* C6: for an ENUM field the dispatch returns {id: ...} only when
\* raw_values[0] is a key of the allowed-value mapping, the id being that of
\* the mapping's entry; a value outside the allowed set always ends in an
\* error, never in an id.
C6_EnumOnlyAllowed ==
    (pc = "converted" /\ field_type[1] = "ENUM" /\ cur_information.key \notin KeyRuleNames) =>
        /\ (~InAllowedSet(cur_values[1]) => converted.raised # "no")
        /\ (converted.raised = "no" =>
                /\ InAllowedSet(cur_values[1])
                /\ converted.value = IdObjectOf(cur_values[1]))

\* an ENUM field given a value outside its (non-empty, well-formed) allowed set
C6_Witness ==
    /\ pc = "converted"
    /\ field_type[1] = "ENUM"
    /\ cur_information.key \notin KeyRuleNames
    /\ WellFormedAllowedValues
    /\ Len(cur_information.allowedValues) > 0
    /\ ~InAllowedSet(cur_values[1])
    /\ converted.raised = "AttributeError"

\* C7: an ARRAY field with ENUM items and a well-formed allowed-value list
\* turns N raw values of the allowed set into N {id: ...} objects, the i-th
\* holding the id of the i-th value's entry; an ARRAY field with other items
\* returns the raw values unchanged, in order.
C7_ArrayInOrder ==
    (pc = "converted" /\ field_type[1] = "ARRAY" /\ cur_information.key \notin KeyRuleNames) =>
        /\ (field_type[2] = "ENUM" /\ WellFormedAllowedValues
            /\ (\A i \in 1..Len(cur_values) : InAllowedSet(cur_values[i])) =>
                /\ converted.raised = "no"
                /\ converted.value =
                       JList([i \in 1..Len(cur_values) |-> IdObjectOf(cur_values[i])]))
        /\ (field_type[2] # "ENUM" =>
                /\ converted.raised = "no"
                /\ converted.value =
                       JList([i \in 1..Len(cur_values) |-> JStr(cur_values[i])]))

\* two different values of the allowed set converted to two ids, in order
C7_Witness ==
    /\ pc = "converted"
    /\ field_type = <<"ARRAY", "ENUM">>
    /\ cur_information.key \notin KeyRuleNames
    /\ WellFormedAllowedValues
    /\ Len(cur_values) = 2
    /\ cur_values[1] # cur_values[2]
    /\ converted.raised = "no"
    /\ converted.value = JList(<<IdObjectOf(cur_values[1]), IdObjectOf(cur_values[2])>>)

\* C8 as stated: components becomes [{name: raw_values[0]}] and labels
\* becomes [raw_values[0]], by the converters written for them.
C8_Original ==
    pc = "converted" =>
        /\ (cur_information.key = S("components") =>
                /\ converted.converters = <<"values_to_components">>
                /\ converted.raised = "no"
                /\ converted.value = JList(<<JObj("name", JStr(cur_values[1]))>>))
        /\ (cur_information.key = S("labels") =>
                /\ converted.converters = <<"values_to_labels">>
                /\ converted.raised = "no"
                /\ converted.value = JList(<<JStr(cur_values[1])>>))

\* C8 amended: values_to_components and values_to_labels are applied to no
\* field; components and labels go through the generic rules, so with an
\* ARRAY type and items that are not ENUM the result is the sequence of all
\* raw values in order, with ENUM items a sequence of {id: ...} objects, one
\* per raw value, and with a type that is neither ARRAY nor ENUM
\* raw_values[0] verbatim.
C8_GenericDispatch ==
    (pc = "converted" /\ HasSchema /\ cur_information.key \in {S("components"), S("labels")}) =>
        /\ \A i \in 1..Len(converted.converters) :
               converted.converters[i] \in {"values_to_enum", "values_to_array"}
        /\ (field_type[1] = "ARRAY" /\ field_type[2] # "ENUM" =>
                /\ converted.raised = "no"
                /\ converted.value = JList([i \in 1..Len(cur_values) |-> JStr(cur_values[i])]))
        /\ (field_type[1] = "ARRAY" /\ field_type[2] = "ENUM" /\ converted.raised = "no" =>
                /\ Len(converted.value.v) = Len(cur_values)
                /\ \A i \in 1..Len(cur_values) : converted.value.v[i].k = "id")
        /\ (field_type[1] \notin {"ARRAY", "ENUM"} =>
                converted = [raised |-> "no", value |-> JStr(cur_values[1]),
                             converters |-> <<>>])

\* labels given two values keeps both
C8_Witness ==
    /\ pc = "converted"
    /\ cur_information.key = S("labels")
    /\ field_type = <<"ARRAY", "STRING">>
    /\ Len(cur_values) = 2
    /\ converted.converters = <<"values_to_array">>
    /\ converted.value = JList(<<JStr(cur_values[1]), JStr(cur_values[2])>>)

\* C9: for a schema with a type marker get_type is one of ARRAY, STRING,
\* ENUM, NONE: "array" gives ARRAY, else "string" gives STRING, else the
\* presence of allowedValues gives ENUM, else NONE.
C9_Classify ==
    (pc # "classify" /\ HasSchema) =>
        LET marker == cur_information.schema.type
        IN  /\ field_type[1] \in {"ARRAY", "STRING", "ENUM", "NONE"}
            /\ (marker = "array" => field_type[1] = "ARRAY")
            /\ (marker = "string" => field_type[1] = "STRING")
            /\ (marker \notin {"array", "string"} /\ HasAllowedValues => field_type[1] = "ENUM")
            /\ (marker \notin {"array", "string"} /\ ~HasAllowedValues => field_type[1] = "NONE")

\* a field of type "string" that carries allowedValues is STRING, not ENUM
C9_Witness ==
    /\ pc = "convert"
    /\ HasSchema
    /\ cur_information.schema.type = "string"
    /\ HasAllowedValues
    /\ field_type[1] = "STRING"

-----------------------------------------------------------------------------
(* Properties of credential resolution (SpecLogin) *)

Credentials == <<
    [arg |-> in_server, env |-> environ["JIRA_API_SERVER"],   var |-> "JIRA_API_SERVER"],
    [arg |-> in_user,   env |-> environ["JIRA_API_USERNAME"], var |-> "JIRA_API_USERNAME"],
    [arg |-> in_token,  env |-> environ["JIRA_API_TOKEN"],    var |-> "JIRA_API_TOKEN"] >>

\* the argument when it is given, else the environment variable
Resolved(c) == IF c.arg.given THEN c.arg ELSE c.env

Missing(c) == ~Resolved(c).given
Empty(c) == Resolved(c).given /\ Len(Resolved(c).val) = 0
NonEmpty(c) == Resolved(c).given /\ Len(Resolved(c).val) > 0

LoginInfoIsResolved ==
    /\ (jira_login_info.raised = "no" <=> \A i \in 1..3 : NonEmpty(Credentials[i]))
    /\ (jira_login_info.raised = "no" =>
            jira_login_info.value = [server |-> Resolved(Credentials[1]).val,
                                     user |-> Resolved(Credentials[2]).val,
                                     token |-> Resolved(Credentials[3]).val])

\* C10 as stated: each credential that is missing gives the missing-variable
\* error naming it, each one resolved to the empty string gives the
\* value-empty error, whatever the other two credentials are.
C10_Original ==
    pc = "login_done" =>
        /\ \A i \in 1..3 :
               /\ (Missing(Credentials[i]) =>
                       /\ jira_login_info.raised = "UndefinedVariable"
                       /\ jira_login_info.message[1] = Credentials[i].var)
               /\ (Empty(Credentials[i]) => jira_login_info.raised = "ValueError")
        /\ LoginInfoIsResolved

\* C10 amended: the credentials are resolved in the order server, user, token
\* and the first one that fails decides the error: a credential whose
\* predecessors all resolved to non-empty strings gives the missing-variable
\* error naming it when argument and environment variable are both absent,
\* and the value-empty error when it resolves to the empty string.  The
\* argument is used whenever it is given, and a LoginInfo of the three
\* resolved values is returned exactly when all three are non-empty.
C10_FirstFailureDecides ==
    pc = "login_done" =>
        /\ \A i \in 1..3 :
               (\A j \in 1..(i - 1) : NonEmpty(Credentials[j])) =>
                   /\ (Missing(Credentials[i]) =>
                           /\ jira_login_info.raised = "UndefinedVariable"
                           /\ jira_login_info.message[1] = Credentials[i].var)
                   /\ (Empty(Credentials[i]) => jira_login_info.raised = "ValueError")
        /\ LoginInfoIsResolved

\* server resolved, user missing, token empty: the error names the user variable
C10_Witness ==
    /\ pc = "login_done"
    /\ in_server.given /\ environ["JIRA_API_SERVER"].given
    /\ NonEmpty(Credentials[1])
    /\ Missing(Credentials[2])
    /\ Empty(Credentials[3])
    /\ jira_login_info.raised = "UndefinedVariable"
    /\ jira_login_info.message[1] = "JIRA_API_USERNAME"

-----------------------------------------------------------------------------
(* The run of create_issue.py *)

MaxSet == 3         \* --set occurrences on the command line
MaxLink == 2        \* --link occurrences on the command line

\* FIELD=VALUE and ISSUE:LINK tokens
SetToken(key, value) == key \o <<"=">> \o value
LinkToken(key, value) == key \o <<":">> \o value

SetTokens == {
    SetToken(S("project"), S("PRJ")),
    SetToken(S("issuetype"), S("Task")),
    SetToken(<<"Issue", " ", "Type">>, S("Bug")),
    SetToken(<<"\t", "Priority", " ">>, S("High")),
    SetToken(S("priority"), S("Bob")),
    SetToken(S("labels"), <<"a", "=", "b">>),
    SetToken(S("Team"), S("x")),
    S("summary") }

\* one --set occurrence is a non-empty list of tokens
SetItems == {<<t>> : t \in SetTokens}
            \cup {<<SetToken(S("project"), S("PRJ")), SetToken(S("issuetype"), S("Task"))>>}

SetArgs == {None} \cup {Some(l) : l \in UNION {[1..n -> SetItems] : n \in 1..MaxSet}}

LinkTokens == {
    LinkToken(S("PRJ-5"), <<"Is", " ", "part", " ", "of">>),
    LinkToken(S("PRJ-5"), S("Blocks")),
    LinkToken(<<"PRJ-6", " ">>, S("Blocks")),
    S("PRJ-7") }

LinkItems == {<<t>> : t \in LinkTokens}

LinkArgs == {None} \cup {Some(l) : l \in UNION {[1..n -> LinkItems] : n \in 1..MaxLink}}

ShowArgs == [show_fields : BOOLEAN,
             issue_type : {None, Some(S("Task"))},
             issue_project : {None, Some(S("PRJ"))}]

\* a tracker whose metadata is regular: jira.fields() lists every field and
\* the edit metadata of an issue carries the allowed values
RegularFields == [
    allfields |-> <<
        [id |-> S("project"), key |-> S("project"), name |-> S("Project"),
         schema |-> [type |-> "project"]],
        [id |-> S("issuetype"), key |-> S("issuetype"), name |-> <<"Issue", " ", "Type">>,
         schema |-> [type |-> "issuetype"]],
        [id |-> S("priority"), key |-> S("priority"), name |-> S("Priority"),
         schema |-> [type |-> "priority"]],
        [id |-> S("labels"), key |-> S("labels"), name |-> S("Labels"),
         schema |-> [type |-> "array", items |-> "string"]],
        [id |-> S("thumbnail"), key |-> S("thumbnail"), name |-> S("Images")] >>,
    editmeta |-> <<
        [k |-> S("issuetype"),
         v |-> [key |-> S("issuetype"), name |-> <<"Issue", " ", "Type">>,
                schema |-> [type |-> "issuetype"],
                allowedValues |-> <<[id |-> S("10001"), name |-> S("Task")]>>]],
        [k |-> S("priority"),
         v |-> [key |-> S("priority"), name |-> S("Priority"),
                schema |-> [type |-> "priority"],
                allowedValues |-> <<[id |-> S("1"), name |-> S("High")],
                                    [id |-> S("2"), name |-> S("Low")]>>]],
        [k |-> S("labels"),
         v |-> [key |-> S("labels"), name |-> S("Labels"),
                schema |-> [type |-> "array", items |-> "string"]]] >> ]

\* a tracker with a field whose key differs from its id and that the edit
\* metadata lacks, and with an allowed value that has no "value" and no "name"
IrregularFields == [
    allfields |-> <<
        [id |-> S("project"), key |-> S("project"), name |-> S("Project"),
         schema |-> [type |-> "project"]],
        [id |-> S("issuetype"), key |-> S("issuetype"), name |-> <<"Issue", " ", "Type">>,
         schema |-> [type |-> "issuetype"]],
        [id |-> S("priority"), key |-> S("priority"), name |-> S("Priority"),
         schema |-> [type |-> "priority"]],
        [id |-> S("customfield_2"), key |-> S("team"), name |-> S("Team"),
         schema |-> [type |-> "string"]] >>,
    editmeta |-> <<
        [k |-> S("priority"),
         v |-> [key |-> S("priority"), name |-> S("Priority"),
                schema |-> [type |-> "priority"],
                allowedValues |-> <<[id |-> S("1"), name |-> S("High")],
                                    [id |-> S("2")]>>]] >> ]

\* a tracker with a custom field whose display name is the id of another field
ChainedFields == [
    allfields |-> <<
        [id |-> S("project"), key |-> S("project"), name |-> S("Project"),
         schema |-> [type |-> "project"]],
        [id |-> S("issuetype"), key |-> S("issuetype"), name |-> <<"Issue", " ", "Type">>,
         schema |-> [type |-> "issuetype"]],
        [id |-> S("priority"), key |-> S("priority"), name |-> S("Priority"),
         schema |-> [type |-> "priority"]],
        [id |-> S("customfield_3"), key |-> S("customfield_3"), name |-> S("issuetype"),
         schema |-> [type |-> "string"]] >>,
    editmeta |-> <<
        [k |-> S("issuetype"),
         v |-> [key |-> S("issuetype"), name |-> <<"Issue", " ", "Type">>,
                schema |-> [type |-> "issuetype"],
                allowedValues |-> <<[id |-> S("10001"), name |-> S("Task")]>>]],
        [k |-> S("priority"),
         v |-> [key |-> S("priority"), name |-> S("Priority"),
                schema |-> [type |-> "priority"],
                allowedValues |-> <<[id |-> S("1"), name |-> S("High")],
                                    [id |-> S("2"), name |-> S("Low")]>>]],
        [k |-> S("customfield_3"),
         v |-> [key |-> S("customfield_3"), name |-> S("issuetype"),
                schema |-> [type |-> "string"]]] >> ]

TrackerFields == {RegularFields, IrregularFields, ChainedFields}

\* what jira.search_issues, jira.create_issue, jira.issue and
\* jira.create_issue_link can answer
SearchResponses == {Raise("JIRAError"), Return(<<>>), Return(<<S("PRJ-1")>>)}
CreateResponses == {Raise("JIRAError"), Return(S("PRJ-100"))}
CallResponses == {Raise("JIRAError"), Return("ok")}

Exit(why) == [how |-> "exit", why |-> why]
Crash(why) == [how |-> "crash", why |-> why]
CrashIn(why, converters) == [how |-> "crash", why |-> why, converters |-> converters]

Init ==
    /\ pc = "make_jira_login_info"
    /\ in_server \in ArgStrings
    /\ in_user = Some(S("arg"))
    /\ in_token = Some(S("arg"))
    /\ environ = [n \in EnvNames |-> None]
    /\ jira_login_info = NotYet
    /\ ConvIdle
    /\ MainIdle

\* line 281: an exception of make_jira_login_info ends the process
LoginStep ==
    /\ pc = "make_jira_login_info"
    /\ jira_login_info' = make_jira_login_info(in_server, in_user, in_token, environ)
    /\ IF jira_login_info'.raised = "no"
       THEN pc' = "fields" /\ error' = error
       ELSE pc' = "crashed" /\ error' = Crash(jira_login_info'.raised)
    /\ UNCHANGED <<in_server, in_user, in_token, environ, conv_vars, args_vars,
                   fields_vars, issue_vars>>

\* lines 283-289: the client is built and jira.fields() is read
FetchFields ==
    /\ pc = "fields"
    /\ \/ /\ \E t \in TrackerFields :
                /\ tracker_fields' = Some(t)
                /\ fields_information_dict' =
                       generate_jira_fields_information_from_general_source(t.allfields)
          /\ pc' = "show_fields"
          /\ error' = error
       \/ /\ pc' = "crashed"
          /\ error' = Crash("JIRAError")
          /\ UNCHANGED <<tracker_fields, fields_information_dict>>
    /\ UNCHANGED <<login_vars, conv_vars, args_vars, all_ids, fields_and_values,
                   field_index, final_fields, issue_vars>>

\* the show_fields branch without its exit() calls: the run goes on after the dump
ShowFields_no_exit ==
    /\ pc = "show_fields"
    /\ \E a \in ShowArgs :
        /\ args_show' = Read(a)
        /\ IF ~a.show_fields \/ ~a.issue_type.given
           THEN pc' = "parse_items_for_set" /\ error' = error
           ELSE \E response \in SearchResponses :
                   LET found == get_issue_by_issuetype_and_project(response)
                   IN  IF found.raised # "no"
                       THEN pc' = "crashed" /\ error' = Crash(found.raised)
                       ELSE \/ pc' = "parse_items_for_set" /\ error' = error
                            \/ found.value.given /\ pc' = "crashed" /\ error' = Crash("JIRAError")
    /\ UNCHANGED <<login_vars, conv_vars, args_set, args_link, fields_vars, issue_vars>>

\* lines 293-312: with --show_fields the metadata is dumped and the process exits
ShowFields ==
    /\ pc = "show_fields"
    /\ \E a \in ShowArgs :
        /\ args_show' = Read(a)
        /\ IF ~a.show_fields
           THEN pc' = "parse_items_for_set" /\ error' = error
           ELSE IF ~a.issue_type.given
           THEN pc' = "exited" /\ error' = Exit("fields shown")
           ELSE \E response \in SearchResponses :
                   LET found == get_issue_by_issuetype_and_project(response)
                   IN  IF found.raised # "no"
                       THEN pc' = "crashed" /\ error' = Crash(found.raised)
                       ELSE IF ~found.value.given
                       THEN pc' = "exited" /\ error' = Exit("Wasn't found issues with type")
                       ELSE \/ pc' = "exited" /\ error' = Exit("fields shown")
                            \/ pc' = "crashed" /\ error' = Crash("JIRAError")
    /\ UNCHANGED <<login_vars, conv_vars, args_set, args_link, fields_vars, issue_vars>>

\* lines 314-319: --set is parsed; project and issuetype must be among the keys
ParseSet ==
    /\ pc = "parse_items_for_set"
    /\ \E a \in SetArgs :
        /\ args_set' = Read(a)
        /\ LET parsed == parse_items_for_set(a)
           IN  IF parsed.raised # "no"
               THEN /\ pc' = "crashed" /\ error' = Crash(parsed.raised)
                    /\ UNCHANGED <<fields_and_values, all_ids>>
               ELSE /\ fields_and_values' = parsed.value
                    /\ all_ids' = dict_keys(parsed.value)
                    /\ IF ~dict_has(parsed.value, S("issuetype"))
                          \/ ~dict_has(parsed.value, S("project"))
                       THEN pc' = "exited"
                            /\ error' = Exit("Fields are not set: issuetype and/or project")
                       ELSE pc' = "similar_issue" /\ error' = error
    /\ UNCHANGED <<login_vars, conv_vars, args_show, args_link, tracker_fields,
                   fields_information_dict, field_index, final_fields, issue_vars>>

\* lines 321-322: an issue of the type and project is searched and its edit
\* metadata laid over the general metadata; editmeta(None) raises, and
\* editmeta of a found issue can fail as any request can
FetchSimilar ==
    /\ pc = "similar_issue"
    /\ \E response \in SearchResponses :
        LET similar_issue == get_issue_by_issuetype_and_project(response)
        IN  IF similar_issue.raised # "no"
            THEN /\ pc' = "crashed" /\ error' = Crash(similar_issue.raised)
                 /\ UNCHANGED fields_information_dict
            ELSE IF ~similar_issue.value.given
            THEN /\ pc' = "crashed" /\ error' = Crash("JIRAError")
                 /\ UNCHANGED fields_information_dict
            ELSE \/ /\ fields_information_dict' =
                           dict_merge(fields_information_dict, tracker_fields.val.editmeta)
                    /\ pc' = "resolve_names"
                    /\ error' = error
                 \/ /\ pc' = "crashed" /\ error' = Crash("JIRAError")
                    /\ UNCHANGED fields_information_dict
    /\ UNCHANGED <<login_vars, conv_vars, args_vars, tracker_fields, all_ids,
                   fields_and_values, field_index, final_fields, issue_vars>>

\* lines 327-332
ResolveNames ==
    /\ pc = "resolve_names"
    /\ LET resolved == resolve_names(all_ids, fields_and_values,
                                     fields_names_map(tracker_fields.val.allfields),
                                     fields_ids_map(tracker_fields.val.allfields))
       IN  /\ fields_and_values' = resolved.value
           /\ IF resolved.raised = "exit"
              THEN pc' = "exited" /\ error' = Exit("Not found field")
              ELSE IF resolved.raised # "no"
              THEN pc' = "crashed" /\ error' = Crash(resolved.raised)
              ELSE pc' = "convert" /\ error' = error
    /\ UNCHANGED <<login_vars, conv_vars, args_vars, tracker_fields,
                   fields_information_dict, all_ids, field_index, final_fields, issue_vars>>

\* ConvertStep logging its errors without leaving: the field is skipped
ConvertStep_no_exit ==
    /\ pc = "convert"
    /\ LET field == fields_and_values[field_index].k
           raw == fields_and_values[field_index].v
           go_on == /\ field_index' = field_index + 1
                    /\ pc' = IF field_index = Len(fields_and_values)
                             THEN "parse_items_for_link" ELSE "convert"
       IN  IF ~dict_has(fields_information_dict, field)
           THEN /\ error' = Exit("Information not found for field")
                /\ final_fields' = final_fields
                /\ go_on
           ELSE \E tracker \in Trackers :
                   LET result == convert(raw, dict_get(fields_information_dict, field), tracker)
                   IN  IF result.raised = "exit"
                       THEN /\ error' = Exit("No value or name fields in allowed values information")
                            /\ final_fields' = final_fields
                            /\ go_on
                       ELSE IF result.raised # "no"
                       THEN /\ error' = CrashIn(result.raised, result.converters)
                            /\ final_fields' = final_fields
                            /\ go_on
                       ELSE /\ final_fields' = dict_set(final_fields, field, result.value)
                            /\ error' = error
                            /\ go_on
    /\ UNCHANGED <<login_vars, conv_vars, args_vars, tracker_fields,
                   fields_information_dict, all_ids, fields_and_values, issue_vars>>

\* lines 335-349, one field of fields_and_values
ConvertStep ==
    /\ pc = "convert"
    /\ LET field == fields_and_values[field_index].k
           raw == fields_and_values[field_index].v
       IN  IF ~dict_has(fields_information_dict, field)
           THEN /\ pc' = "exited" /\ error' = Exit("Information not found for field")
                /\ UNCHANGED <<final_fields, field_index>>
           ELSE \E tracker \in Trackers :
                   LET result == convert(raw, dict_get(fields_information_dict, field), tracker)
                   IN  IF result.raised = "exit"
                       THEN /\ pc' = "exited"
                            /\ error' = Exit("No value or name fields in allowed values information")
                            /\ UNCHANGED <<final_fields, field_index>>
                       ELSE IF result.raised # "no"
                       THEN /\ pc' = "crashed"
                            /\ error' = CrashIn(result.raised, result.converters)
                            /\ UNCHANGED <<final_fields, field_index>>
                       ELSE /\ final_fields' = dict_set(final_fields, field, result.value)
                            /\ field_index' = field_index + 1
                            /\ pc' = IF field_index = Len(fields_and_values)
                                     THEN "parse_items_for_link" ELSE "convert"
                            /\ error' = error
    /\ UNCHANGED <<login_vars, conv_vars, args_vars, tracker_fields,
                   fields_information_dict, all_ids, fields_and_values, issue_vars>>

\* line 352
ParseLinks ==
    /\ pc = "parse_items_for_link"
    /\ \E a \in LinkArgs :
        /\ args_link' = Read(a)
        /\ LET parsed == parse_items_for_link(a)
           IN  IF parsed.raised # "no"
               THEN pc' = "crashed" /\ error' = Crash(parsed.raised) /\ links' = links
               ELSE pc' = "create_issue" /\ error' = error /\ links' = parsed.value
    /\ UNCHANGED <<login_vars, conv_vars, args_show, args_set, fields_vars,
                   link_index, issue, calls, link_attempts>>

\* CreateIssue calling create_issue a second time when the first call fails
CreateIssue_retry_once ==
    /\ pc = "create_issue"
    /\ \E first \in CreateResponses, second \in CreateResponses :
        LET one == [op |-> "create_issue", fields |-> final_fields, ok |-> first.raised = "no"]
            two == [op |-> "create_issue", fields |-> final_fields, ok |-> second.raised = "no"]
            last == IF first.raised = "no" THEN first ELSE second
        IN  /\ calls' = IF first.raised = "no" THEN Append(calls, one)
                        ELSE Append(Append(calls, one), two)
            /\ IF last.raised = "no"
               THEN /\ issue' = Some(last.value)
                    /\ pc' = IF Len(links) = 0 THEN "done" ELSE "link_issues"
               ELSE /\ issue' = issue
                    /\ pc' = "done"
    /\ UNCHANGED <<login_vars, conv_vars, args_vars, fields_vars, links, link_index,
                   link_attempts, error>>

\* lines 354-359: an exception of create_issue is logged and the script ends
CreateIssue ==
    /\ pc = "create_issue"
    /\ \E response \in CreateResponses :
        /\ calls' = Append(calls, [op |-> "create_issue", fields |-> final_fields,
                                   ok |-> response.raised = "no"])
        /\ IF response.raised = "no"
           THEN /\ issue' = Some(response.value)
                /\ pc' = IF Len(links) = 0 THEN "done" ELSE "link_issues"
           ELSE /\ issue' = issue
                /\ pc' = "done"
    /\ UNCHANGED <<login_vars, conv_vars, args_vars, fields_vars, links, link_index,
                   link_attempts, error>>

\* LinkStep leaving the loop at the first exception
LinkStep_abort_on_failure ==
    /\ pc = "link_issues"
    /\ \E fetched \in CallResponses, linked \in CallResponses :
        /\ link_attempts' = Append(link_attempts,
                                   [destination_issue |-> links[link_index].k,
                                    link_type |-> links[link_index].v,
                                    fetched |-> fetched.raised = "no"])
        /\ calls' = IF fetched.raised = "no"
                    THEN Append(calls, [op |-> "create_issue_link",
                                        type |-> links[link_index].v,
                                        inwardIssue |-> issue.val,
                                        outwardIssue |-> links[link_index].k,
                                        ok |-> linked.raised = "no"])
                    ELSE calls
        /\ pc' = IF link_index = Len(links) \/ fetched.raised # "no" \/ linked.raised # "no"
                 THEN "done" ELSE "link_issues"
    /\ link_index' = link_index + 1
    /\ UNCHANGED <<login_vars, conv_vars, args_vars, fields_vars, links, issue, error>>

\* jira_utils.link_issues, one item of links: jira.issue(destination_issue),
\* then link_issue; an exception of either is logged
LinkStep ==
    /\ pc = "link_issues"
    /\ \E fetched \in CallResponses, linked \in CallResponses :
        /\ link_attempts' = Append(link_attempts,
                                   [destination_issue |-> links[link_index].k,
                                    link_type |-> links[link_index].v,
                                    fetched |-> fetched.raised = "no"])
        /\ calls' = IF fetched.raised = "no"
                    THEN Append(calls, [op |-> "create_issue_link",
                                        type |-> links[link_index].v,
                                        inwardIssue |-> issue.val,
                                        outwardIssue |-> links[link_index].k,
                                        ok |-> linked.raised = "no"])
                    ELSE calls
    /\ link_index' = link_index + 1
    /\ pc' = IF link_index = Len(links) THEN "done" ELSE "link_issues"
    /\ UNCHANGED <<login_vars, conv_vars, args_vars, fields_vars, links, issue, error>>

Next ==
    \/ LoginStep
    \/ FetchFields
    \/ ShowFields
    \/ ParseSet
    \/ FetchSimilar
    \/ ResolveNames
    \/ ConvertStep
    \/ ParseLinks
    \/ CreateIssue
    \/ LinkStep

Spec == Init /\ [][Next]_vars

-----------------------------------------------------------------------------
(* Properties of the run (Spec) *)

CreateCalls == {i \in 1..Len(calls) : calls[i].op = "create_issue"}
LinkCalls == {i \in 1..Len(calls) : calls[i].op = "create_issue_link"}

\* the validation failures the script detects
ValidationFailureDetected ==
    \/ error = Exit("Fields are not set: issuetype and/or project")
    \/ error = Exit("Not found field")
    \/ error = Exit("Information not found for field")
    \/ error = Exit("No value or name fields in allowed values information")
    \/ /\ error.how = "crash"
       /\ "converters" \in DOMAIN error
       /\ error.why = "AttributeError"
       /\ error.converters \in {<<"values_to_enum">>, <<"values_to_array">>}

KnownNamesAndIds ==
    {tracker_fields.val.allfields[i].name : i \in 1..Len(tracker_fields.val.allfields)}
    \cup {tracker_fields.val.allfields[i].id : i \in 1..Len(tracker_fields.val.allfields)}

\* C1: once a validation failure has been detected (project or issuetype not
\* among the --set keys, a key that is no field name and no field id, a
\* field without metadata, an enumerated value outside the allowed set, an
\* allowed value with neither "value" nor "name") the process has ended and
\* no create_issue and no link attempt was made; and whenever create_issue
\* was called, project and issuetype were among the keys, every key was a
\* known name or id and every field submitted had metadata.
C1_NoMutationAfterValidationFailure ==
    /\ (ValidationFailureDetected =>
            /\ pc \in {"exited", "crashed"}
            /\ calls = <<>>
            /\ link_attempts = <<>>)
    /\ (calls # <<>> =>
            /\ \E i \in 1..Len(all_ids) : all_ids[i] = S("project")
            /\ \E i \in 1..Len(all_ids) : all_ids[i] = S("issuetype")
            /\ \A i \in 1..Len(all_ids) : all_ids[i] \in KnownNamesAndIds
            /\ \A i \in 1..Len(fields_and_values) :
                   dict_has(fields_information_dict, fields_and_values[i].k))

\* priority=Bob: the value is outside the allowed set of an ENUM field
C1_Witness ==
    /\ pc = "crashed"
    /\ error = CrashIn("AttributeError", <<"values_to_enum">>)
    /\ dict_has(final_fields, S("project"))
    /\ calls = <<>>

\* C2: once create_issue has succeeded the run is in link_issues or done,
\* never exited or crashed; the link attempts made so far are those of the
\* first targets of the parsed link set, one per target and in its order,
\* whatever the outcome of each, and at done every target has its attempt.
C2_LinkFailuresIsolated ==
    issue.given =>
        /\ pc \in {"link_issues", "done"}
        /\ Len(link_attempts) = link_index - 1
        /\ Len(link_attempts) <= Len(links)
        /\ \A i \in 1..Len(link_attempts) :
               /\ link_attempts[i].destination_issue = links[i].k
               /\ link_attempts[i].link_type = links[i].v
        /\ (pc = "done" => Len(link_attempts) = Len(links))

\* the first of two links failed and the second was attempted all the same
C2_Witness ==
    /\ pc = "done"
    /\ issue.given
    /\ Len(links) = 2
    /\ Len(link_attempts) = 2
    /\ ~link_attempts[1].fetched
    /\ link_attempts[2].fetched
    /\ \E i \in LinkCalls : calls[i].outwardIssue = links[2].k

\* C3: create_issue is called at most once; every create_issue_link call
\* comes after a create_issue call that succeeded; after a failed
\* create_issue there is no link attempt and no create_issue_link call.
C3_CreateOnceLinksAfter ==
    /\ Cardinality(CreateCalls) <= 1
    /\ \A j \in LinkCalls : \E i \in CreateCalls : i < j /\ calls[i].ok
    /\ \A i \in CreateCalls : ~calls[i].ok => (LinkCalls = {} /\ link_attempts = <<>>)
    /\ (link_attempts # <<>> => \E i \in CreateCalls : calls[i].ok)

\* create_issue failed with links requested: the run is done with that one call
C3_Witness ==
    /\ pc = "done"
    /\ Len(links) > 0
    /\ Len(calls) = 1
    /\ calls[1].op = "create_issue"
    /\ ~calls[1].ok
    /\ link_attempts = <<>>

\* the --link occurrences read from the command line
LinkDirectives == IF args_link.read /\ args_link.arg.given THEN args_link.arg.val ELSE <<>>

\* C4: after a successful creation there is one link attempt per --link
\* directive, to its issue and with its link type, so k directives give k
\* attempts.
C4_EveryDirectiveAttempted ==
    (pc = "done" /\ issue.given) =>
        /\ Len(link_attempts) = Len(LinkDirectives)
        /\ \A i \in 1..Len(LinkDirectives) :
               \E j \in 1..Len(link_attempts) :
                   LET directive == parse_item(LinkDirectives[i][1], ":").value
                   IN  /\ link_attempts[j].destination_issue = directive.key
                       /\ link_attempts[j].link_type = directive.value

-----------------------------------------------------------------------------
(* Properties of the name resolution and of the submitted fields (Spec) *)

AllFields == tracker_fields.val.allfields

KnownNames == {AllFields[i].name : i \in 1..Len(AllFields)}

\* the id the name-to-id map gives a display name: that of the last field of the name
IdOfName(name) ==
    AllFields[CHOOSE i \in 1..Len(AllFields) :
                  /\ AllFields[i].name = name
                  /\ \A j \in (i + 1)..Len(AllFields) : AllFields[j].name # name].id

NamesResolved == pc \in {"convert", "parse_items_for_link", "create_issue", "link_issues", "done"}

\* C11: once the names are resolved, every --set key that is a known display
\* name has its entry under the id the name-to-id map gives it, and the
\* metadata looked up under that id, the one handed to the predicates and the
\* converter, is that of the same field: its name is the key.
C11_RoundTrip ==
    NamesResolved =>
        \A i \in 1..Len(all_ids) :
            all_ids[i] \in KnownNames =>
                /\ dict_has(fields_and_values, IdOfName(all_ids[i]))
                /\ (dict_has(fields_information_dict, IdOfName(all_ids[i])) =>
                        get_name(dict_get(fields_information_dict, IdOfName(all_ids[i])))
                            = all_ids[i])

\* C12: with --show_fields the run only dumps metadata and stops: whatever
\* --issue_type and --issue_project are, whether or not an example issue is
\* found, and whatever --set and --link hold (they are never read), neither
\* create_issue nor create_issue_link is ever called.
C12_ShowFieldsNeverCreates ==
    (args_show.read /\ args_show.arg.show_fields) =>
        /\ pc \in {"exited", "crashed"}
        /\ CreateCalls = {}
        /\ LinkCalls = {}
        /\ link_attempts = <<>>
        /\ args_set = NotRead
        /\ args_link = NotRead

\* --show_fields with an issue type and a project, an example issue was found and dumped
C12_Witness ==
    /\ args_show.read
    /\ args_show.arg.show_fields
    /\ args_show.arg.issue_type.given
    /\ args_show.arg.issue_project.given
    /\ pc = "exited"
    /\ error = Exit("fields shown")
    /\ calls = <<>>

\* the --set occurrences read from the command line, and the key and the raw
\* value of the i-th of them
SetOccurrences == IF args_set.read /\ args_set.arg.given THEN args_set.arg.val ELSE <<>>

KeyOf(i) == parse_item(SetOccurrences[i][1], "=").value.key

ValueOf(i) == parse_item(SetOccurrences[i][1], "=").value.value

\* the field a --set key refers to: by display name, else by id
FieldIdOf(key) == IF key \in KnownNames THEN IdOfName(key) ELSE key

UserFields == {FieldIdOf(KeyOf(i)) : i \in 1..Len(SetOccurrences)}

\* the raw values supplied for a field, by its id or by its name, in command-line order
SuppliedFor(id) ==
    LET idx == SelectSeq([i \in 1..Len(SetOccurrences) |-> i],
                         LAMBDA i : FieldIdOf(KeyOf(i)) = id)
    IN  [j \in 1..Len(idx) |-> ValueOf(idx[j])]

FieldsConverted == pc \in {"parse_items_for_link", "create_issue", "link_issues", "done"}

\* C13: once every field is converted, the final field map has one entry per
\* user-specified field and, for every --set key, an entry under the id of the
\* key's field whose value is the conversion of exactly the raw values supplied
\* for the field over all --set occurrences, in command-line order, also when
\* the field is referred to both by its id and by its display name.
C13_NoInputLost ==
    FieldsConverted =>
        /\ Len(final_fields) = Cardinality(UserFields)
        /\ \A id \in UserFields :
               /\ dict_has(final_fields, id)
               /\ dict_has(fields_and_values, id)
               /\ dict_get(fields_and_values, id) = SuppliedFor(id)
               /\ dict_has(fields_information_dict, id)
               /\ \E tracker \in Trackers :
                      LET result == convert(SuppliedFor(id),
                                            dict_get(fields_information_dict, id), tracker)
                      IN  /\ result.raised = "no"
                          /\ result.value = dict_get(final_fields, id)

====
